---------------------------- MODULE Spec2Model ----------------------------
(***************************************************************************)
(* AI report generator backend (backend/main.py, backend/ai_service.py,    *)
(* backend/advanced_ai_service.py).                                        *)
(*                                                                         *)
(* Texts (topics, completions, report bodies, filenames) are sequences of  *)
(* characters.  The literal parts of the fallback templates are single     *)
(* tokens that carry their character count, so that len() of a report and  *)
(* the file name built from it are computed as the code computes them.     *)
(*                                                                         *)
(* Every request handler is one action; its outcome is left in resp.       *)
(***************************************************************************)
EXTENDS Integers, Sequences, FiniteSets, TLC

VARIABLES
    users,           \* rows of table users, in insertion order
    reports,         \* rows of table reports, in insertion order
    disk,            \* files under reports/: file name -> rendered document
    has_column,      \* does table reports have column generation_method
    ai_llm,          \* ai_service.llm is set
    adv_llm,         \* advanced_ai_service.llm is set
    user_memories,   \* advanced_ai_service.user_memories: user id -> log text
    adv_messages,    \* advanced_ai_service.memory.chat_memory.messages
    ai_messages,     \* ai_service.memory.chat_memory.messages
    inflight,        \* requests suspended at the provider call
    db_file,         \* ./genai_reports.db: absent, without or with table reports
    app,             \* the application process: stopped or running
    now,             \* wall clock, in token-lifetime units
    generations,     \* generate requests whose body has run
    resp             \* outcome of the last request

vars == <<users, reports, disk, has_column, db_file, app, ai_llm, adv_llm,
          user_memories, adv_messages, ai_messages, inflight, now,
          generations, resp>>

---------------------------------------------------------------------------
(* Bounds *)

MaxUsers == 2
MaxTime == 1
MaxGenerations == 2
MaxStored == 1

Usernames == {"alice", "bob"}
Emails == {"a@x", "b@x"}
Passwords == {"pw1", "pw2"}
Salts == {"s1", "s2"}

Topics == {<<"a">>, <<"b">>}
Completions == {<<" ">>, <<" ", "x", "\n">>}
Contexts == {<<"c">>}

---------------------------------------------------------------------------
(* Text *)

WhiteSpace == {" ", "\n"}

RECURSIVE LStrip(_)
LStrip(s) ==
    IF s # <<>> /\ Head(s) \in WhiteSpace THEN LStrip(Tail(s)) ELSE s

RECURSIVE RStrip(_)
RStrip(s) ==
    IF s # <<>> /\ s[Len(s)] \in WhiteSpace
    THEN RStrip(SubSeq(s, 1, Len(s) - 1))
    ELSE s

\* str.strip()
Strip(s) == RStrip(LStrip(s))

\* t in s
Contains(s, t) ==
    \E i \in 0..(Len(s) - Len(t)) : SubSeq(s, i + 1, i + Len(t)) = t

\* the literal parts of the f-string in AIService._generate_demo_content,
\* each a token with its character count
DemoLiteral ==
    << <<"D00", 54>>, <<"D01", 259>>, <<"D02", 347>>, <<"D03", 632>>,
       <<"D04", 376>>, <<"D05", 206>>, <<"D06", 623>>, <<"D07", 586>>,
       <<"D08", 463>>, <<"D09", 554>>, <<"D10", 251>> >>

\* the literal parts of the f-string in
\* AdvancedAIService._generate_demo_content
AdvDemoLiteral ==
    << <<"A00", 69>>, <<"A01", 112>>, <<"A02", 222>>, <<"A03", 747>>,
       <<"A04", 127>> >>

Literals ==
    {DemoLiteral[i] : i \in DOMAIN DemoLiteral}
        \cup {AdvDemoLiteral[i] : i \in DOMAIN AdvDemoLiteral}

LiteralChars == [name \in {l[1] : l \in Literals} |->
                    (CHOOSE l \in Literals : l[1] = name)[2]]

\* the characters a token of a text stands for
CharCount(c) == IF c \in DOMAIN LiteralChars THEN LiteralChars[c] ELSE 1

RECURSIVE TextLen(_)
\* len(text)
TextLen(s) == IF s = <<>> THEN 0 ELSE CharCount(Head(s)) + TextLen(Tail(s))

RECURSIVE Interpolate(_, _, _)
\* an f-string: literal part i, then the topic, ..., then the last literal
Interpolate(literal, topic, i) ==
    IF i = Len(literal)
    THEN <<literal[i][1]>>
    ELSE <<literal[i][1]>> \o topic \o Interpolate(literal, topic, i + 1)

DigitChar == <<"0", "1", "2", "3", "4", "5", "6", "7", "8", "9">>

RECURSIVE Digits(_)
\* str(n) for n >= 0
Digits(n) ==
    IF n < 10
    THEN <<DigitChar[n + 1]>>
    ELSE Digits(n \div 10) \o <<DigitChar[(n % 10) + 1]>>

---------------------------------------------------------------------------
(* Credential service (backend/auth.py): AuthHandler *)

Secret == "secret"
Keys == {Secret, "other"}
TokenTTL == 1
NoneId == 0

Payloads == [sub : 0..MaxUsers, exp : 0..(MaxTime + TokenTTL)]

\* HMAC of the payload under key k
Sign(p, k) == <<p.sub, p.exp, k>>

Malformed == [wf |-> FALSE, payload |-> [sub |-> NoneId, exp |-> 0],
              sig |-> <<NoneId, 0, "other">>]

\* every string a client can send as a bearer token: tokens signed with the
\* secret, tokens signed with another key, tokens whose subject was changed
\* after signing, and garbage
Tokens ==
    {[wf |-> TRUE, payload |-> p, sig |-> Sign(q, k)] :
        <<p, q, k>> \in {x \in Payloads \X Payloads \X Keys :
                            x[1].exp = x[2].exp
                            /\ (x[3] = Secret \/ x[1] = x[2])}}
    \cup {Malformed}

\* AuthHandler.encode_token(user_id) at time t
encode_token(user_id, t) ==
    LET p == [sub |-> user_id, exp |-> t + TokenTTL]
    IN  [wf |-> TRUE, payload |-> p, sig |-> Sign(p, Secret)]

\* AuthHandler.decode_token(token) at time t: the user id, or raises
decode_token(token, t) ==
    IF ~token.wf THEN [raised |-> TRUE, id |-> NoneId]
    ELSE IF token.sig # Sign(token.payload, Secret)
    THEN [raised |-> TRUE, id |-> NoneId]
    ELSE IF token.payload.exp <= t THEN [raised |-> TRUE, id |-> NoneId]
    ELSE [raised |-> FALSE, id |-> token.payload.sub]

\* AuthHandler.get_password_hash(password), salted
get_password_hash(password, salt) ==
    [salt |-> salt, digest |-> <<salt, password>>]

\* AuthHandler.verify_password(password, hashed)
verify_password(password, hashed) ==
    hashed.digest = <<hashed.salt, password>>

---------------------------------------------------------------------------
(* Tables *)

Rows(table) == {table[i] : i \in DOMAIN table}

\* db.query(T).filter(cond).first(); the indexes of the rows a filter matches are hits
First(table, hits) ==
    IF hits = {} THEN <<>>
    ELSE <<table[CHOOSE i \in hits : \A j \in hits : i <= j]>>

---------------------------------------------------------------------------
(* Authentication dependency *)

NoCredentials == [kind |-> "none", token |-> Malformed]

Credentials ==
    {NoCredentials} \cup {[kind |-> "bearer", token |-> t] : t \in Tokens}

\* security = HTTPBearer(): a request without bearer credentials is refused
\* before get_current_user runs, with 403 or 401 depending on the framework
\* release
MissingCredentialStatus == {401, 403}

\* variant: the HTTPException raised for a token without an id is re-raised
\* as it is, with the status it was raised with replaced by 403
get_current_user_forbidden(credentials, us, t) ==
    LET d == decode_token(credentials.token, t)
        found == First(us, {i \in DOMAIN us : us[i].id = d.id})
    IN  IF d.raised THEN [status |-> 401, user |-> <<>>]
        ELSE IF d.id = NoneId THEN [status |-> 403, user |-> <<>>]
        ELSE IF found = <<>> THEN [status |-> 404, user |-> <<>>]
        ELSE [status |-> 200, user |-> found]

\* get_current_user: the user row, or 401 for every failure
get_current_user(credentials, us, t) ==
    LET d == decode_token(credentials.token, t)
        found == First(us, {i \in DOMAIN us : us[i].id = d.id})
    IN  IF d.raised THEN [status |-> 401, user |-> <<>>]
        ELSE IF d.id = NoneId THEN [status |-> 401, user |-> <<>>]
        ELSE IF found = <<>> THEN [status |-> 401, user |-> <<>>]
        ELSE [status |-> 200, user |-> found]

\* Depends(get_current_user) behind Depends(security)
Authenticate(credentials, us, t) ==
    IF credentials.kind = "none"
    THEN {[status |-> s, user |-> <<>>] : s \in MissingCredentialStatus}
    ELSE {get_current_user(credentials, us, t)}

---------------------------------------------------------------------------
(* /auth endpoints *)

UserCreate == [username : Usernames, email : Emails, password : Passwords]
UserLogin == [username : Usernames, password : Passwords]

PublicUser(u) == [id |-> u.id, username |-> u.username, email |-> u.email]

\* variant: only the username is looked up
existing_user_by_username(user_data, us) ==
    First(us, {i \in DOMAIN us : us[i].username = user_data.username})

\* signup: the row that makes the request a conflict, if any
existing_user(user_data, us) ==
    First(us, {i \in DOMAIN us : us[i].username = user_data.username
                                   \/ us[i].email = user_data.email})

\* POST /auth/signup
signup ==
    \E user_data \in UserCreate, salt \in Salts :
        LET existing == existing_user(user_data, users)
            new_user == [id |-> Len(users) + 1,
                         username |-> user_data.username,
                         email |-> user_data.email,
                         hashed_password |->
                             get_password_hash(user_data.password, salt)]
        IN  \/ /\ existing # <<>>
               /\ resp' = [op |-> "signup", status |-> 400, req |-> user_data]
               /\ UNCHANGED users
            \/ /\ existing = <<>>
               /\ Len(users) < MaxUsers
               /\ users' = Append(users, new_user)
               /\ resp' = [op |-> "signup", status |-> 200, req |-> user_data,
                           token |-> encode_token(new_user.id, now),
                           user |-> PublicUser(new_user)]
    /\ UNCHANGED <<reports, disk, has_column, db_file, app, ai_llm, adv_llm,
                   user_memories, adv_messages, ai_messages, inflight, now,
                   generations>>

\* login: the row found by username
login_user(user_data, us) ==
    First(us, {i \in DOMAIN us : us[i].username = user_data.username})

\* variant: the password is not verified
login_refused_unknown_only(user_data, us) ==
    login_user(user_data, us) = <<>>

\* login: `not user or not verify_password(...)`
login_refused(user_data, us) ==
    LET user == login_user(user_data, us)
    IN  user = <<>>
        \/ ~verify_password(user_data.password, user[1].hashed_password)

\* POST /auth/login
login ==
    \E user_data \in UserLogin :
        /\ resp' = IF login_refused(user_data, users)
                   THEN [op |-> "login", status |-> 401, req |-> user_data]
                   ELSE LET user == login_user(user_data, users)[1]
                        IN  [op |-> "login", status |-> 200,
                             req |-> user_data,
                             token |-> encode_token(user.id, now),
                             user |-> PublicUser(user)]
        /\ UNCHANGED <<users, reports, disk, has_column, db_file, app, ai_llm, adv_llm,
                       user_memories, adv_messages, ai_messages, inflight, now,
                   generations>>

\* how the dependencies of a protected endpoint can refuse a request: the
\* kind of credentials sent and the status answered
Refusals ==
    {<<c.kind, a.status>> : <<c, a>> \in
        {x \in Credentials \X [status : {401, 403}, user : {<<>>}] :
            x[2] \in Authenticate(x[1], users, now)}}

\* a protected endpoint refused by its dependencies: the body does not run
Refused(op, req) ==
    \E refusal \in Refusals :
        /\ resp' = [op |-> op, status |-> refusal[2],
                    auth |-> refusal[1], req |-> req]
        /\ UNCHANGED <<users, reports, disk, has_column, db_file, app, ai_llm, adv_llm,
                       user_memories, adv_messages, ai_messages, inflight, now,
                   generations>>

\* the users a protected endpoint's body can run for: current_user
Callers ==
    {u \in Rows(users) :
        \E c \in Credentials :
            [status |-> 200, user |-> <<u>>] \in Authenticate(c, users, now)}

NoRequest == <<>>

\* GET /auth/me
get_current_user_info ==
    \/ Refused("me", NoRequest)
    \/ \E current_user \in Callers :
          /\ resp' = [op |-> "me", status |-> 200,
                      body |-> PublicUser(current_user)]
          /\ UNCHANGED <<users, reports, disk, has_column, db_file, app, ai_llm, adv_llm,
                         user_memories, adv_messages, ai_messages, inflight, now,
                   generations>>

\* time passes
Tick ==
    /\ now < MaxTime
    /\ now' = now + 1
    /\ UNCHANGED <<users, reports, disk, has_column, db_file, app, ai_llm, adv_llm,
                   user_memories, adv_messages, ai_messages, inflight,
                   generations, resp>>

---------------------------------------------------------------------------
(* Report-content generator (backend/ai_service.py,                        *)
(* backend/advanced_ai_service.py)                                         *)

\* What running a chain against the provider can do: raise, return a
\* completion, or return something that is not text.  The model leaves the
\* choice open; it is made by the provider and the chain library.
ChainOutcomes ==
    {[kind |-> "raises", text |-> <<>>], [kind |-> "malformed", text |-> <<>>]}
        \cup {[kind |-> "text", text |-> c] : c \in Completions}

NoCall == [kind |-> "not_called", text |-> <<>>]

\* the chain is run only when the service has an llm
ChainRuns(llm) == IF llm THEN ChainOutcomes ELSE {NoCall}

\* AIService._generate_demo_content(topic)
AIService_generate_demo_content(topic) == Interpolate(DemoLiteral, topic, 1)

\* AdvancedAIService._generate_demo_content(topic)
AdvancedAIService_generate_demo_content(topic) ==
    Interpolate(AdvDemoLiteral, topic, 1)

\* variant: the result is returned as the chain gave it
AIService_generate_with_langchain_unstripped(topic, chain) ==
    IF chain.kind = "text"
    THEN [raised |-> FALSE, text |-> chain.text]
    ELSE [raised |-> TRUE, text |-> <<>>]

\* AIService._generate_with_langchain(topic): the stripped result, or raises
\* (the chain raising, or .strip() on a result that is not text)
AIService_generate_with_langchain(topic, chain) ==
    IF chain.kind = "text"
    THEN [raised |-> FALSE, text |-> Strip(chain.text)]
    ELSE [raised |-> TRUE, text |-> <<>>]

\* variant: an error of the chain is answered with an empty text
AIService_generate_report_content_no_fallback(llm, topic, chain) ==
    IF llm
    THEN AIService_generate_with_langchain(topic, chain).text
    ELSE AIService_generate_demo_content(topic)

\* AIService.generate_report_content(topic)
AIService_generate_report_content(llm, topic, chain) ==
    IF llm
    THEN LET r == AIService_generate_with_langchain(topic, chain)
         IN  IF r.raised
             THEN AIService_generate_demo_content(topic)
             ELSE r.text
    ELSE AIService_generate_demo_content(topic)

InterestedIn == "\nInterested in: "

\* variant: the log keeps the latest line only
remember_latest(memories, user_id, topic) ==
    [u \in DOMAIN memories \cup {user_id} |->
        IF u = user_id THEN <<InterestedIn>> \o topic ELSE memories[u]]

\* self.user_memories[user_id] += f"\nInterested in: {topic}", creating the
\* entry when absent
remember(memories, user_id, topic) ==
    [u \in DOMAIN memories \cup {user_id} |->
        IF u = user_id
        THEN (IF u \in DOMAIN memories THEN memories[u] ELSE <<>>)
                 \o <<InterestedIn>> \o topic
        ELSE memories[u]]

\* AdvancedAIService.generate_enhanced_report(topic, additional_context,
\* user_id): the text returned and the memory it leaves.  The memory is
\* updated after the chain returns and before result.strip().
AdvancedAIService_generate_enhanced_report(llm, memories, topic, user_id, chain) ==
    IF ~llm
    THEN [text |-> AdvancedAIService_generate_demo_content(topic),
          memories |-> memories]
    ELSE IF chain.kind = "raises"
    THEN [text |-> AdvancedAIService_generate_demo_content(topic),
          memories |-> memories]
    ELSE LET updated == IF user_id # NoneId
                        THEN remember(memories, user_id, topic)
                        ELSE memories
         IN  IF chain.kind = "malformed"
             THEN [text |-> AdvancedAIService_generate_demo_content(topic),
                   memories |-> updated]
             ELSE [text |-> Strip(chain.text), memories |-> updated]

\* what ConversationSummaryMemory.save_context can do: it appends the two
\* messages, then asks the llm for a new summary, which can raise
SaveOutcomes == {"saved", "raises"}

\* save_context is reached only when the chain has returned
SaveRuns(chain) ==
    IF chain.kind \in {"text", "malformed"} THEN SaveOutcomes ELSE {"saved"}

\* self.memory.save_context({"input": ...}, {"output": ...})
save_context(messages, topic) ==
    messages
        \o << [type |-> "human",
               content |-> <<"Generated report on: ">> \o topic],
              [type |-> "ai", content |-> <<"Report generated successfully">>] >>

\* AdvancedAIService.generate_report_with_memory(topic, user_id): the text
\* returned and the shared messages it leaves
AdvancedAIService_generate_report_with_memory(llm, messages, topic, chain, save) ==
    IF ~llm
    THEN [text |-> AdvancedAIService_generate_demo_content(topic),
          messages |-> messages]
    ELSE IF chain.kind = "raises"
    THEN [text |-> AdvancedAIService_generate_demo_content(topic),
          messages |-> messages]
    ELSE IF save = "raises" \/ chain.kind = "malformed"
    THEN [text |-> AdvancedAIService_generate_demo_content(topic),
          messages |-> save_context(messages, topic)]
    ELSE [text |-> Strip(chain.text),
          messages |-> save_context(messages, topic)]

\* messages[-5:]
HistoryWindow == 5

\* variant: the whole log is taken
LastMessages_all(messages) == messages

LastMessages(messages) ==
    SubSeq(messages,
           IF Len(messages) > HistoryWindow
           THEN Len(messages) - HistoryWindow + 1 ELSE 1,
           Len(messages))

RECURSIVE JoinMessages(_)
\* "\n".join([f"{msg.type}: {msg.content}" for msg in messages])
JoinMessages(messages) ==
    IF messages = <<>> THEN <<>>
    ELSE LET line == <<Head(messages).type, ": ">> \o Head(messages).content
         IN  IF Len(messages) = 1 THEN line
             ELSE line \o <<"\n">> \o JoinMessages(Tail(messages))

NoHistory == <<"No conversation history available">>

\* AdvancedAIService.generate_report_with_memory: the history handed to
\* the chain
AdvancedAIService_conversation_history(messages) ==
    IF messages = <<>> THEN NoHistory
    ELSE JoinMessages(LastMessages(messages))

\* AIService.generate_report_with_memory: history_text
AIService_history_text(messages) == JoinMessages(LastMessages(messages))

\* AIService.generate_enhanced_report(topic, additional_context): no
\* handler around the chain or around result.strip()
AIService_generate_enhanced_report(llm, topic, chain) ==
    IF ~llm
    THEN [raised |-> FALSE, text |-> AIService_generate_demo_content(topic)]
    ELSE IF chain.kind = "text"
    THEN [raised |-> FALSE, text |-> Strip(chain.text)]
    ELSE [raised |-> TRUE, text |-> <<>>]

\* what chat_memory.add_ai_message(result) can do with a result that is
\* not text: keep it as the content of a message, or raise
AddOutcomes == {"added", "raises"}

\* add_ai_message is given a result that is not text only when the chain
\* returned one
AddRuns(chain) == IF chain.kind = "malformed" THEN AddOutcomes ELSE {"added"}

\* AIService.generate_report_with_memory(topic, user_id): the text returned
\* or the error raised, and the messages it leaves.  No handler around the
\* chain, the memory update or result.strip().
AIService_generate_report_with_memory(llm, messages, topic, chain, add) ==
    LET asked == [type |-> "human",
                  content |-> <<"Generate report on: ">> \o topic]
        answered == [type |-> "ai", content |-> chain.text]
    IN  IF ~llm
        THEN [raised |-> FALSE,
              text |-> AIService_generate_demo_content(topic),
              messages |-> messages]
        ELSE IF chain.kind = "raises"
        THEN [raised |-> TRUE, text |-> <<>>, messages |-> messages]
        ELSE IF chain.kind = "malformed"
        THEN [raised |-> TRUE, text |-> <<>>,
              messages |-> IF add = "raises"
                           THEN Append(messages, asked)
                           ELSE messages \o <<asked, answered>>]
        ELSE [raised |-> FALSE, text |-> Strip(chain.text),
              messages |-> messages \o <<asked, answered>>]

---------------------------------------------------------------------------
(* Document renderer (backend/pdf_generator.py) and the reports directory *)

\* f"reports/{filename}"
ReportPath(filename) == <<"reports/">> \o filename

\* variant: the file name leaves the user out
BasicFilename_without_user(user_id, content) ==
    <<"report_">> \o Digits(TextLen(content)) \o <<".pdf">>

\* variant: the file name carries the content, not its length
BasicFilename_of_content(user_id, content) ==
    <<"report_">> \o Digits(user_id) \o <<"_">> \o content \o <<".pdf">>

\* f"report_{current_user.id}_{len(report_content)}.pdf"
BasicFilename(user_id, content) ==
    <<"report_">> \o Digits(user_id) \o <<"_">>
        \o Digits(TextLen(content)) \o <<".pdf">>

\* f"enhanced_report_{current_user.id}_{len(report_content)}.pdf"
EnhancedFilename(user_id, content) ==
    <<"enhanced_report_">> \o Digits(user_id) \o <<"_">>
        \o Digits(TextLen(content)) \o <<".pdf">>

RenderOutcomes == {"written", "raises"}

\* PDFGenerator.create_report(topic, content, author, path) writes the file
create_report(files, topic, content, author, path) ==
    [f \in DOMAIN files \cup {path} |->
        IF f = path
        THEN [topic |-> topic, content |-> content, author |-> author]
        ELSE files[f]]

\* os.path.exists(path)
Exists(files, path) == path \in DOMAIN files

---------------------------------------------------------------------------
(* Persistence gateway: table reports with an optional column *)

NullMethod == "NULL"

\* what a database statement can do besides succeeding: fail with a message
\* that contains "generation_method", or fail with another message
DbFaults == {"none", "error_naming_column", "error"}
RawFaults == {"none", "error"}

\* a statement of the ORM names every mapped column, so it fails on a table
\* without generation_method, and the message names the column
typed_statement(column, fault) ==
    IF ~column THEN "error_naming_column" ELSE fault

\* "generation_method" in str(db_error)
mentions_generation_method(outcome) == outcome = "error_naming_column"

\* the raw statement is tried only after a typed failure naming the column
RawRuns(column, fault) ==
    IF mentions_generation_method(typed_statement(column, fault))
    THEN RawFaults
    ELSE {"none"}

\* the faults a database access can meet
DbRuns(column) ==
    {<<f, r>> \in DbFaults \X RawFaults : r \in RawRuns(column, f)}

\* variant: the typed insert leaves generation_method out
save_report_unlabelled(rows, column, user_id, topic, filename, path, method, fault, raw) ==
    LET typed == typed_statement(column, fault)
        row == [id |-> Len(rows) + 1, user_id |-> user_id, topic |-> topic,
                filename |-> filename, file_path |-> path,
                generation_method |-> NullMethod]
    IN  IF typed = "none"
        THEN [rows |-> Append(rows, row), via |-> "typed", raised |-> FALSE]
        ELSE IF mentions_generation_method(typed) /\ raw = "none"
        THEN [rows |-> Append(rows, row), via |-> "raw", raised |-> FALSE]
        ELSE [rows |-> rows, via |-> "none", raised |-> TRUE]

\* variant: a row that names the same file is replaced
save_report_upsert(rows, column, user_id, topic, filename, path, method, fault, raw) ==
    LET row == [id |-> Len(rows) + 1, user_id |-> user_id, topic |-> topic,
                filename |-> filename, file_path |-> path,
                generation_method |-> method]
        same == {i \in DOMAIN rows : rows[i].filename = filename}
    IN  IF typed_statement(column, fault) # "none"
        THEN [rows |-> rows, via |-> "typed", raised |-> TRUE]
        ELSE IF same = {}
        THEN [rows |-> Append(rows, row), via |-> "typed", raised |-> FALSE]
        ELSE [rows |-> [i \in DOMAIN rows |->
                           IF i \in same
                           THEN [row EXCEPT !.id = rows[i].id]
                           ELSE rows[i]],
              via |-> "typed", raised |-> FALSE]

\* variant: an error of the insert is not raised again
save_report_quiet(rows, column, user_id, topic, filename, path, method, fault, raw) ==
    LET typed == typed_statement(column, fault)
        row == [id |-> Len(rows) + 1, user_id |-> user_id, topic |-> topic,
                filename |-> filename, file_path |-> path,
                generation_method |-> method]
    IN  IF typed = "none"
        THEN [rows |-> Append(rows, row), via |-> "typed", raised |-> FALSE]
        ELSE IF mentions_generation_method(typed) /\ raw = "none"
        THEN [rows |-> Append(rows,
                              [row EXCEPT !.generation_method = NullMethod]),
              via |-> "raw", raised |-> FALSE]
        ELSE [rows |-> rows, via |-> "typed", raised |-> FALSE]

\* the try/except around db.add(report); db.commit(): the table afterwards,
\* the path that inserted, and whether an error is re-raised
save_report(rows, column, user_id, topic, filename, path, method, fault, raw) ==
    LET typed == typed_statement(column, fault)
        row == [id |-> Len(rows) + 1, user_id |-> user_id, topic |-> topic,
                filename |-> filename, file_path |-> path,
                generation_method |-> method]
    IN  IF typed = "none"
        THEN [rows |-> Append(rows, row), via |-> "typed", raised |-> FALSE]
        ELSE IF mentions_generation_method(typed)
        THEN IF raw = "none"
             THEN [rows |-> Append(rows,
                                [row EXCEPT !.generation_method = NullMethod]),
                   via |-> "raw", raised |-> FALSE]
             ELSE [rows |-> rows, via |-> "raw", raised |-> TRUE]
        ELSE [rows |-> rows, via |-> "typed", raised |-> TRUE]

---------------------------------------------------------------------------
(* Report endpoints *)

\* str(e) of the exception of a step of the chain: the renderer, the typed
\* statement, the raw statement
ErrorText == [none |-> "render error", typed |-> "database error",
              raw |-> "raw statement error"]

\* detail=f"Failed to generate report: {str(e)}" and
\* detail=f"Failed to generate enhanced report: {str(e)}"
FailureDetail(op, step) ==
    <<IF op = "generate_report" THEN "Failed to generate report: "
      ELSE "Failed to generate enhanced report: ",
      ErrorText[step]>>

\* variant: the row is inserted first and the PDF rendered after it
RenderAndSave_insert_first(op, current_user, topic, content, filename, method, sent) ==
    LET pdf_path == ReportPath(filename)
        answer(status, via) ==
            [op |-> op, status |-> status, user |-> current_user.id,
             topic |-> topic, sent |-> sent, via |-> via,
             content |-> content]
    IN  \E render \in RenderOutcomes, db \in DbRuns(has_column) :
            LET saved == save_report(reports, has_column, current_user.id,
                                     topic, filename, pdf_path, method,
                                     db[1], db[2])
            IN  /\ reports' = saved.rows
                /\ IF saved.raised \/ render = "raises"
                   THEN /\ UNCHANGED disk
                        /\ resp' = answer(500, saved.via)
                   ELSE /\ disk' = create_report(disk, topic, content,
                                                 current_user.username,
                                                 pdf_path)
                        /\ resp' = answer(200, saved.via)

\* the tail of both generate endpoints: render the PDF, insert the row,
\* answer; any exception becomes a 500.  sent is what the request asked for
\* and what the generator did, and content what the generator returned, kept
\* with the outcome; via is the step that was reached last.
RenderAndSave(op, current_user, topic, content, filename, method, sent) ==
    LET pdf_path == ReportPath(filename)
        failed(via) == [op |-> op, status |-> 500, user |-> current_user.id,
                        topic |-> topic, sent |-> sent, via |-> via,
                        content |-> content,
                        detail |-> FailureDetail(op, via)]
    IN  \E render \in RenderOutcomes :
            \/ /\ render = "raises"
               /\ resp' = failed("none")
               /\ UNCHANGED <<reports, disk>>
            \/ /\ render = "written"
               /\ disk' = create_report(disk, topic, content,
                                        current_user.username, pdf_path)
               /\ \E db \in DbRuns(has_column) :
                     LET saved == save_report(reports, has_column,
                                              current_user.id, topic, filename,
                                              pdf_path, method, db[1], db[2])
                     IN  /\ reports' = saved.rows
                         /\ resp' =
                                IF saved.raised
                                THEN failed(saved.via)
                                ELSE [op |-> op, status |-> 200,
                                      user |-> current_user.id,
                                      topic |-> topic, sent |-> sent,
                                      via |-> saved.via,
                                      content |-> content,
                                      filename |-> filename,
                                      generation_method |-> method]

\* POST /generate-report
generate_report ==
    \/ Refused("generate_report", NoRequest)
    \/ /\ \E current_user \in Callers, topic \in Topics :
             \E chain \in ChainRuns(ai_llm) :
                 LET report_content ==
                         AIService_generate_report_content(ai_llm, topic, chain)
                     filename ==
                         BasicFilename(current_user.id, report_content)
                 IN  RenderAndSave("generate_report", current_user, topic,
                                   report_content, filename, "basic_ai",
                                   [include_memory |-> FALSE, chain |-> chain])
       /\ generations' = generations + 1
       /\ UNCHANGED <<users, has_column, db_file, app, ai_llm, adv_llm, user_memories,
                      adv_messages, ai_messages, inflight, now>>

EnhancedReportRequest ==
    [topic : Topics, additional_context : Contexts, include_memory : BOOLEAN]

\* POST /generate-enhanced-report
generate_enhanced_report ==
    \/ Refused("generate_enhanced_report", NoRequest)
    \/ /\ \E current_user \in Callers, request \in EnhancedReportRequest :
             \E chain \in ChainRuns(adv_llm) :
                 \/ /\ request.include_memory
                    /\ \E save \in SaveRuns(chain) :
                          LET g == AdvancedAIService_generate_report_with_memory(
                                       adv_llm, adv_messages, request.topic,
                                       chain, save)
                          IN  /\ adv_messages' = g.messages
                              /\ RenderAndSave(
                                     "generate_enhanced_report", current_user,
                                     request.topic, g.text,
                                     EnhancedFilename(current_user.id, g.text),
                                     "enhanced_with_memory",
                                     [include_memory |-> TRUE,
                                      chain |-> chain])
                    /\ UNCHANGED user_memories
                 \/ /\ ~request.include_memory
                    /\ LET g == AdvancedAIService_generate_enhanced_report(
                                    adv_llm, user_memories, request.topic,
                                    current_user.id, chain)
                       IN  /\ user_memories' = g.memories
                           /\ RenderAndSave(
                                  "generate_enhanced_report", current_user,
                                  request.topic, g.text,
                                  EnhancedFilename(current_user.id, g.text),
                                  "enhanced_with_context",
                                  [include_memory |-> FALSE,
                                   chain |-> chain])
                    /\ UNCHANGED adv_messages
       /\ generations' = generations + 1
       /\ UNCHANGED <<users, has_column, db_file, app, ai_llm, adv_llm, ai_messages,
                      inflight, now>>

\* the rows db.query(Report).filter(filename ==, user_id ==) matches
owned_rows(rows, filename, user_id) ==
    {r \in Rows(rows) : r.filename = filename /\ r.user_id = user_id}

\* the ownership check of both download endpoints: how its try block ends.
\* On the raw path a row that is found leaves `report` unassigned, and the
\* `if not report` after it raises UnboundLocalError.
ownership_check(rows, column, filename, user_id, fault, raw) ==
    LET typed == typed_statement(column, fault)
        owned == owned_rows(rows, filename, user_id) # {}
    IN  IF typed = "none"
        THEN (IF owned THEN "owned" ELSE "access_denied")
        ELSE IF mentions_generation_method(typed)
        THEN (IF raw # "none" THEN "db_error"
              ELSE IF ~owned THEN "access_denied"
              ELSE "unbound_report")
        ELSE "db_error"

\* variant: the 403 of the ownership check is re-raised
after_ownership_check_strict(check) ==
    IF check = "access_denied" THEN 403 ELSE 0

\* `except Exception as db_error: ... pass`: the status an ownership check
\* ends the request with, 0 when the request goes on
after_ownership_check(check) == 0

\* base64.b64encode(content)
b64encode(file) == [b64 |-> file]

DownloadBody(op, filename, file) ==
    IF op = "download"
    THEN [filename |-> filename, file |-> file]
    ELSE [filename |-> filename, content |-> b64encode(file),
          mime_type |-> "application/pdf"]

\* variant: ownership is checked before the file is looked up
download_response_owner_first(op, files, rows, column, filename, user_id, fault, raw) ==
    IF owned_rows(rows, filename, user_id) = {}
    THEN [op |-> op, status |-> 403, user |-> user_id, req |-> filename,
          check |-> "access_denied"]
    ELSE [op |-> op, status |-> 200, user |-> user_id, req |-> filename,
          check |-> "owned",
          body |-> DownloadBody(op, filename, files[ReportPath(filename)])]

\* the body of download_report and of download_report_json: the answer to
\* an authenticated request.  A file that exists is taken to be readable.
download_response(op, files, rows, column, filename, user_id, fault, raw) ==
    LET file_path == ReportPath(filename)
        check == ownership_check(rows, column, filename, user_id, fault, raw)
        stop == after_ownership_check(check)
    IN  IF ~Exists(files, file_path)
        THEN [op |-> op, status |-> 404, user |-> user_id, req |-> filename,
              check |-> "none"]
        ELSE IF stop # 0
        THEN [op |-> op, status |-> stop, user |-> user_id, req |-> filename,
              check |-> check]
        ELSE [op |-> op, status |-> 200, user |-> user_id, req |-> filename,
              check |-> check,
              body |-> DownloadBody(op, filename, files[file_path])]

\* the files a client asks for: those on disk, and one that is not
RequestedFiles == {Tail(f) : f \in DOMAIN disk} \cup {<<"nothing.pdf">>}

\* GET /download/{filename} and GET /download-json/{filename}
Download(op) ==
    /\ \E filename \in RequestedFiles :
          \/ Refused(op, filename)
          \/ \E current_user \in Callers, db \in DbRuns(has_column) :
                resp' = download_response(op, disk, reports, has_column,
                                          filename, current_user.id,
                                          db[1], db[2])
    /\ UNCHANGED <<users, reports, disk, has_column, db_file, app, ai_llm, adv_llm,
                   user_memories, adv_messages, ai_messages, inflight, now,
                   generations>>

download_report == Download("download")

download_report_json == Download("download_json")

\* variant: the query has no filter
user_rows_unfiltered(rows, user_id) == rows

\* the rows db.query(Report).filter(Report.user_id == current_user.id) and
\* the raw SELECT ... WHERE user_id = ? return
user_rows(rows, user_id) == SelectSeq(rows, LAMBDA r : r.user_id = user_id)

\* the listing of the typed path
typed_listing(rows) ==
    [i \in DOMAIN rows |->
        [id |-> rows[i].id, topic |-> rows[i].topic,
         filename |-> rows[i].filename,
         generation_method |-> rows[i].generation_method]]

\* the listing of the raw path
raw_listing(rows) ==
    [i \in DOMAIN rows |->
        [id |-> rows[i].id, topic |-> rows[i].topic,
         filename |-> rows[i].filename, generation_method |-> NullMethod]]

\* GET /reports
get_user_reports ==
    /\ \/ Refused("reports", NoRequest)
       \/ \E current_user \in Callers, db \in DbRuns(has_column) :
             LET typed == typed_statement(has_column, db[1])
                 mine == user_rows(reports, current_user.id)
             IN  resp' =
                     IF typed = "none"
                     THEN [op |-> "reports", status |-> 200,
                           user |-> current_user.id, via |-> "typed",
                           body |-> typed_listing(mine)]
                     ELSE IF mentions_generation_method(typed) /\ db[2] = "none"
                     THEN [op |-> "reports", status |-> 200,
                           user |-> current_user.id, via |-> "raw",
                           body |-> raw_listing(mine)]
                     ELSE [op |-> "reports", status |-> 500,
                           user |-> current_user.id, via |-> "none"]
    /\ UNCHANGED <<users, reports, disk, has_column, db_file, app, ai_llm, adv_llm,
                   user_memories, adv_messages, ai_messages, inflight, now,
                   generations>>

---------------------------------------------------------------------------
(* Accounts: sign up, log in, then use a protected endpoint *)

NoResponse == [op |-> "none", status |-> 0]

InitAuth ==
    /\ users = <<>>
    /\ reports = <<>>
    /\ disk = <<>>
    /\ has_column = TRUE
    /\ ai_llm = FALSE
    /\ adv_llm = FALSE
    /\ user_memories = <<>>
    /\ adv_messages = <<>>
    /\ ai_messages = <<>>
    /\ inflight = {}
    /\ db_file = "table"
    /\ app = "running"
    /\ now = 0
    /\ generations = 0
    /\ resp = NoResponse

NextAuth ==
    \/ signup
    \/ login
    \/ get_current_user_info
    \/ generations < MaxStored /\ generate_report
    \/ Tick

SpecAuth == InitAuth /\ [][NextAuth]_vars

---------------------------------------------------------------------------
(* The report endpoints with two registered users *)

RegisteredUsers ==
    << [id |-> 1, username |-> "alice", email |-> "a@x",
        hashed_password |-> get_password_hash("pw1", "s1")],
       [id |-> 2, username |-> "bob", email |-> "b@x",
        hashed_password |-> get_password_hash("pw2", "s2")] >>

\* OPENAI_API_KEY is read by both services: both have an llm, or neither
Init ==
    /\ users = RegisteredUsers
    /\ reports = <<>>
    /\ disk = <<>>
    /\ has_column \in BOOLEAN
    /\ ai_llm \in BOOLEAN
    /\ adv_llm = ai_llm
    /\ user_memories = <<>>
    /\ adv_messages = <<>>
    /\ ai_messages = <<>>
    /\ inflight = {}
    /\ db_file = "table"
    /\ app = "running"
    /\ now = 0
    /\ generations = 0
    /\ resp = NoResponse

\* generating and listing
Next ==
    \/ generations < MaxGenerations /\ generate_report
    \/ generations < MaxGenerations /\ generate_enhanced_report
    \/ get_user_reports

Spec == Init /\ [][Next]_vars

\* generating and downloading
NextDownload ==
    \/ generations < MaxStored /\ generate_report
    \/ generations < MaxStored /\ generate_enhanced_report
    \/ download_report
    \/ download_report_json

SpecDownload == Init /\ [][NextDownload]_vars

\* every endpoint that reads or writes table reports
NextPersistence ==
    \/ generations < MaxStored /\ generate_report
    \/ generations < MaxStored /\ generate_enhanced_report
    \/ download_report
    \/ download_report_json
    \/ get_user_reports

SpecPersistence == Init /\ [][NextPersistence]_vars

---------------------------------------------------------------------------
(* The generation entry points of the two services, called directly *)

MaxCalls == 4

\* what a call of an entry point came to: returned text or raised; history
\* is the conversation history the call handed to its chain
Outcome(op, user_id, topic, chain, raised, text, history) ==
    [op |-> op, user |-> user_id, topic |-> topic, chain |-> chain,
     raised |-> raised, text |-> text, history |-> history]

\* await ai_service.generate_report_content(topic)
Call_AIService_generate_report_content ==
    /\ \E topic \in Topics, chain \in ChainRuns(ai_llm) :
          resp' = Outcome("AIService.generate_report_content", NoneId, topic,
                          chain, FALSE,
                          AIService_generate_report_content(ai_llm, topic,
                                                            chain),
                          <<>>)
    /\ UNCHANGED <<users, reports, disk, has_column, db_file, app, ai_llm, adv_llm,
                   user_memories, adv_messages, ai_messages, inflight, now,
                   generations>>

\* await ai_service.generate_enhanced_report(topic, additional_context)
Call_AIService_generate_enhanced_report ==
    /\ \E topic \in Topics, chain \in ChainRuns(ai_llm) :
          LET g == AIService_generate_enhanced_report(ai_llm, topic, chain)
          IN  resp' = Outcome("AIService.generate_enhanced_report", NoneId,
                              topic, chain, g.raised, g.text, <<>>)
    /\ UNCHANGED <<users, reports, disk, has_column, db_file, app, ai_llm, adv_llm,
                   user_memories, adv_messages, ai_messages, inflight, now,
                   generations>>

\* await ai_service.generate_report_with_memory(topic, user_id)
Call_AIService_generate_report_with_memory ==
    /\ \E topic \in Topics, u \in Rows(users), chain \in ChainRuns(ai_llm) :
          \E add \in AddRuns(chain) :
              LET g == AIService_generate_report_with_memory(
                           ai_llm, ai_messages, topic, chain, add)
              IN  /\ ai_messages' = g.messages
                  /\ resp' = Outcome("AIService.generate_report_with_memory",
                                     u.id, topic, chain, g.raised, g.text,
                                     IF ai_llm
                                     THEN AIService_history_text(ai_messages)
                                     ELSE <<>>)
    /\ generations' = generations + 1
    /\ UNCHANGED <<users, reports, disk, has_column, db_file, app, ai_llm, adv_llm,
                   user_memories, adv_messages, inflight, now>>

\* await advanced_ai_service.generate_enhanced_report(topic, context, user_id)
Call_AdvancedAIService_generate_enhanced_report ==
    /\ \E topic \in Topics, u \in Rows(users), chain \in ChainRuns(adv_llm) :
          LET g == AdvancedAIService_generate_enhanced_report(
                       adv_llm, user_memories, topic, u.id, chain)
          IN  /\ user_memories' = g.memories
              /\ resp' = Outcome("AdvancedAIService.generate_enhanced_report",
                                 u.id, topic, chain, FALSE, g.text, <<>>)
    /\ generations' = generations + 1
    /\ UNCHANGED <<users, reports, disk, has_column, db_file, app, ai_llm, adv_llm,
                   adv_messages, ai_messages, inflight, now>>

\* await advanced_ai_service.generate_report_with_memory(topic, user_id)
Call_AdvancedAIService_generate_report_with_memory ==
    /\ \E topic \in Topics, u \in Rows(users), chain \in ChainRuns(adv_llm) :
          \E save \in SaveRuns(chain) :
              LET g == AdvancedAIService_generate_report_with_memory(
                           adv_llm, adv_messages, topic, chain, save)
              IN  /\ adv_messages' = g.messages
                  /\ resp' = Outcome(
                         "AdvancedAIService.generate_report_with_memory",
                         u.id, topic, chain, FALSE, g.text,
                         IF adv_llm
                         THEN AdvancedAIService_conversation_history(
                                  adv_messages)
                         ELSE <<>>)
    /\ generations' = generations + 1
    /\ UNCHANGED <<users, reports, disk, has_column, db_file, app, ai_llm, adv_llm,
                   user_memories, ai_messages, inflight, now>>

\* the services after construction; neither touches the database
InitServices ==
    /\ Init
    /\ has_column

NextServices ==
    \/ Call_AIService_generate_report_content
    \/ Call_AIService_generate_enhanced_report
    \/ generations < MaxGenerations
          /\ Call_AIService_generate_report_with_memory
    \/ generations < MaxGenerations
          /\ Call_AdvancedAIService_generate_enhanced_report
    \/ generations < MaxGenerations
          /\ Call_AdvancedAIService_generate_report_with_memory

SpecServices == InitServices /\ [][NextServices]_vars

\* history-based generation alone, often enough to fill the window
NextHistory ==
    \/ generations < MaxCalls /\ Call_AIService_generate_report_with_memory
    \/ generations < MaxCalls
          /\ Call_AdvancedAIService_generate_report_with_memory

SpecHistory == InitServices /\ [][NextHistory]_vars

---------------------------------------------------------------------------
(* Context-augmented generations in flight at once.  A coroutine gives up  *)
(* the event loop only at `await chain.ainvoke(...)`: what comes before it *)
(* is one step, what comes after it is another.                            *)

MaxInflight == 3

NoUserMemory == <<"No user memory available">>

\* user_memory or "No user memory available", as built before the await
PromptMemory(memories, user_id) ==
    IF user_id \in DOMAIN memories
    THEN <<"\nUser's previous interests and preferences: ">>
             \o memories[user_id]
    ELSE NoUserMemory

\* variant: the update works on the memory as it was before the await
MemoryAtUpdate_snapshot(memories, request) ==
    [u \in (DOMAIN memories \ {request.user}) \cup DOMAIN request.seen |->
        IF u = request.user THEN request.seen[u] ELSE memories[u]]

\* self.user_memories as the lines after the await read it
MemoryAtUpdate(memories, request) == memories

\* generate_enhanced_report up to the await: the prompt is built
Start_generate_enhanced_report ==
    /\ adv_llm
    /\ \E u \in Rows(users), topic \in Topics :
          inflight' = inflight \cup
              {[n |-> generations + 1, user |-> u.id, topic |-> topic,
                memory |-> PromptMemory(user_memories, u.id),
                seen |-> [x \in DOMAIN user_memories \cap {u.id} |->
                             user_memories[x]]]}
    /\ generations' = generations + 1
    /\ UNCHANGED <<users, reports, disk, has_column, db_file, app, ai_llm, adv_llm,
                   user_memories, adv_messages, ai_messages, now, resp>>

\* generate_enhanced_report from the await on: the chain returns or raises,
\* the memory is updated, the text is returned
Finish_generate_enhanced_report ==
    /\ \E request \in inflight, chain \in ChainOutcomes :
          LET g == AdvancedAIService_generate_enhanced_report(
                       adv_llm, MemoryAtUpdate(user_memories, request),
                       request.topic, request.user, chain)
          IN  /\ user_memories' = g.memories
              /\ inflight' = inflight \ {request}
              /\ resp' = Outcome("AdvancedAIService.generate_enhanced_report",
                                 request.user, request.topic, chain, FALSE,
                                 g.text, request.memory)
    /\ UNCHANGED <<users, reports, disk, has_column, db_file, app, ai_llm, adv_llm,
                   adv_messages, ai_messages, now, generations>>

NextConcurrent ==
    \/ generations < MaxInflight /\ Start_generate_enhanced_report
    \/ Finish_generate_enhanced_report
    \/ (~adv_llm /\ generations < MaxInflight)
          /\ Call_AdvancedAIService_generate_enhanced_report

SpecConcurrent == InitServices /\ [][NextConcurrent]_vars

---------------------------------------------------------------------------
(* Startup and the migration script (backend/migrate_db.py)                *)

\* what sqlite can do to a run of the script besides working: refuse the
\* connection, or fail a statement
MigrationFaults == {"none", "connect_error", "error"}

\* variant: the table is made anew with the column, empty
migrate_database_recreate(file, column, rows, fault) ==
    IF file = "absent"
    THEN [db_file |-> file, column |-> column, rows |-> rows,
          outcome |-> "no_file", raised |-> FALSE]
    ELSE IF fault = "connect_error"
    THEN [db_file |-> file, column |-> column, rows |-> rows,
          outcome |-> "raised", raised |-> TRUE]
    ELSE IF fault = "error"
    THEN [db_file |-> file, column |-> column, rows |-> rows,
          outcome |-> "failed", raised |-> FALSE]
    ELSE IF file = "table" /\ column
    THEN [db_file |-> file, column |-> column, rows |-> rows,
          outcome |-> "already", raised |-> FALSE]
    ELSE IF file = "no_table"
    THEN [db_file |-> file, column |-> column, rows |-> rows,
          outcome |-> "failed", raised |-> FALSE]
    ELSE [db_file |-> file, column |-> TRUE, rows |-> <<>>,
          outcome |-> "migrated", raised |-> FALSE]

\* migrate_database(): the database it leaves and how the run ended.  When
\* sqlite3.connect raises, the handler reads `conn`, which was never
\* assigned, and the error of that read leaves the function.  ALTER TABLE
\* on a database without table reports fails and is caught.
migrate_database(file, column, rows, fault) ==
    IF file = "absent"
    THEN [db_file |-> file, column |-> column, rows |-> rows,
          outcome |-> "no_file", raised |-> FALSE]
    ELSE IF fault = "connect_error"
    THEN [db_file |-> file, column |-> column, rows |-> rows,
          outcome |-> "raised", raised |-> TRUE]
    ELSE IF fault = "error"
    THEN [db_file |-> file, column |-> column, rows |-> rows,
          outcome |-> "failed", raised |-> FALSE]
    ELSE IF file = "table" /\ column
    THEN [db_file |-> file, column |-> column, rows |-> rows,
          outcome |-> "already", raised |-> FALSE]
    ELSE IF file = "no_table"
    THEN [db_file |-> file, column |-> column, rows |-> rows,
          outcome |-> "failed", raised |-> FALSE]
    ELSE [db_file |-> file, column |-> TRUE, rows |-> rows,
          outcome |-> "migrated", raised |-> FALSE]

\* Base.metadata.create_all(bind=engine): makes the file and the tables
\* that are missing, with every mapped column; leaves a table that is there
\* as it is
create_all(file, column) ==
    IF file = "table"
    THEN [db_file |-> file, column |-> column]
    ELSE [db_file |-> "table", column |-> TRUE]

\* python migrate_db.py
run_migration ==
    /\ \E fault \in MigrationFaults :
          LET m == migrate_database(db_file, has_column, reports, fault)
          IN  /\ db_file' = m.db_file
              /\ has_column' = m.column
              /\ reports' = m.rows
              /\ resp' = [op |-> "migrate", status |-> 0,
                          outcome |-> m.outcome, propagated |-> m.raised]
    /\ UNCHANGED <<users, disk, app, ai_llm, adv_llm, user_memories,
                   adv_messages, ai_messages, inflight, now, generations>>

\* the module is imported and lifespan runs up to its yield: the migration
\* is tried and whatever it raises is printed
startup ==
    /\ app = "stopped"
    /\ \E fault \in MigrationFaults :
          LET made == create_all(db_file, has_column)
              m == migrate_database(made.db_file, made.column, reports, fault)
          IN  /\ db_file' = m.db_file
              /\ has_column' = m.column
              /\ reports' = m.rows
              /\ resp' = [op |-> "startup", status |-> 0,
                          outcome |-> m.outcome, propagated |-> FALSE]
    /\ app' = "running"
    /\ UNCHANGED <<users, disk, ai_llm, adv_llm, user_memories,
                   adv_messages, ai_messages, inflight, now, generations>>

\* a database left by earlier runs of the application, or none, and the
\* application not started yet
InitMigration ==
    /\ db_file \in {"absent", "no_table", "table"}
    /\ has_column \in (IF db_file = "table" THEN BOOLEAN ELSE {FALSE})
    /\ users = IF db_file = "table" THEN RegisteredUsers ELSE <<>>
    /\ app = "stopped"
    /\ reports = <<>>
    /\ disk = <<>>
    /\ ai_llm \in BOOLEAN
    /\ adv_llm = ai_llm
    /\ user_memories = <<>>
    /\ adv_messages = <<>>
    /\ ai_messages = <<>>
    /\ inflight = {}
    /\ now = 0
    /\ generations = 0
    /\ resp = NoResponse

NextMigration ==
    \/ startup
    \/ run_migration
    \/ (app = "running" /\ generations < MaxStored) /\ generate_report

SpecMigration == InitMigration /\ [][NextMigration]_vars

---------------------------------------------------------------------------
(* Properties *)

Authenticated(r) == "user" \in DOMAIN r

IsDownload(r) == r.op \in {"download", "download_json"}

\* C1: in both download endpoints, when the caller is authenticated and the
\* file exists, a failed ownership check (no row with that file name owned
\* by the caller, or an error during the check) does not block the
\* download: the answer is 200 with the content of the file, never 403.
C1_OwnershipFailureDoesNotBlock ==
    (/\ IsDownload(resp)
     /\ Authenticated(resp)
     /\ Exists(disk, ReportPath(resp.req))
     /\ \/ owned_rows(reports, resp.req, resp.user) = {}
        \/ resp.check # "owned")
        => /\ resp.status = 200
           /\ resp.body = DownloadBody(resp.op, resp.req,
                                       disk[ReportPath(resp.req)])

\* a user has downloaded a file that only another user has a row for
C1_Witness ==
    /\ IsDownload(resp)
    /\ Authenticated(resp)
    /\ resp.status = 200
    /\ owned_rows(reports, resp.req, resp.user) = {}
    /\ \E r \in Rows(reports) : r.filename = resp.req /\ r.user_id # resp.user

\* C2 as stated: a download of a file name that is not on disk answers 404
\* whatever credentials the request carries.
C2_NotFoundRegardlessOfAuthentication ==
    (resp.op = "download" /\ ~Exists(disk, ReportPath(resp.req)))
        => resp.status = 404

\* C2, amended: a download of a file name that is not on disk answers 404
\* to every authenticated caller; a request with a token that does not
\* authenticate is answered 401, and one without credentials 401 or 403,
\* before the file is looked up.
C2_NotFoundWhenAuthenticated ==
    (resp.op = "download" /\ ~Exists(disk, ReportPath(resp.req)))
        => IF Authenticated(resp)
           THEN resp.status = 404
           ELSE /\ resp.auth = "bearer" => resp.status = 401
                /\ resp.auth = "none" => resp.status \in {401, 403}

\* an authenticated user has asked for a file that is not there, while
\* other files are
C2_Witness ==
    /\ resp.op = "download"
    /\ Authenticated(resp)
    /\ resp.status = 404
    /\ ~Exists(disk, ReportPath(resp.req))
    /\ DOMAIN disk # {}

IsGeneration(r) == r.op \in {"generate_report", "generate_enhanced_report"}

\* the label each endpoint answers with
EndpointLabel(r) ==
    IF r.op = "generate_report" THEN "basic_ai"
    ELSE IF r.sent.include_memory THEN "enhanced_with_memory"
    ELSE "enhanced_with_context"

\* a step in which a generate endpoint has answered 200
Generated == generations' = generations + 1 /\ resp'.status = 200

\* the row a successful generation has added: the last one
LastRow == reports[Len(reports)]

\* C3 as stated: after a successful generation the row added carries the
\* label of the response as its generation_method, on the typed path and on
\* the raw path.
C3_RowCarriesLabel ==
    (IsGeneration(resp) /\ resp.status = 200)
        => /\ Len(reports) > 0
           /\ LastRow.generation_method = resp.generation_method

\* C3, amended: a successful generation adds exactly one row, owned by the
\* caller and naming the file of the response, and answers with the label
\* of its endpoint; the row carries that label when it was inserted by the
\* typed path, and no generation_method when it was inserted by the raw
\* path.
C3_OneRowLabelledOnTypedPath ==
    [][Generated =>
        /\ Len(reports') = Len(reports) + 1
        /\ SubSeq(reports', 1, Len(reports)) = reports
        /\ resp'.generation_method = EndpointLabel(resp')
        /\ LET row == reports'[Len(reports')]
           IN  /\ row.user_id = resp'.user
               /\ row.topic = resp'.topic
               /\ row.filename = resp'.filename
               /\ row.generation_method =
                      IF resp'.via = "typed"
                      THEN resp'.generation_method
                      ELSE NullMethod]_vars

\* an enhanced generation with memory has been saved by the raw path
C3_Witness ==
    /\ resp.op = "generate_enhanced_report"
    /\ resp.status = 200
    /\ resp.via = "raw"
    /\ resp.generation_method = "enhanced_with_memory"
    /\ LastRow.generation_method = NullMethod
    /\ LastRow.user_id = resp.user

\* no two user rows share a username or an email
UniqueUsers ==
    \A i, j \in DOMAIN users :
        i # j => /\ users[i].username # users[j].username
                 /\ users[i].email # users[j].email

\* the request of the signup answered in this step names the username or
\* the email of a row that was there before
SignupConflict ==
    /\ resp'.op = "signup"
    /\ now' = now
    /\ \E u \in Rows(users) :
          u.username = resp'.req.username \/ u.email = resp'.req.email

\* C4: a signup whose username or email equals that of an existing user is
\* answered with a client error and no token and leaves the user rows as
\* they were; so no two user rows ever share a username or an email.
C4_SignupConflict ==
    /\ []UniqueUsers
    /\ [][SignupConflict =>
            /\ resp'.status = 400
            /\ "token" \notin DOMAIN resp'
            /\ users' = users]_vars

\* a signup with a new username and a taken email has been refused
C4_Witness ==
    /\ resp.op = "signup"
    /\ resp.status = 400
    /\ \A u \in Rows(users) : u.username # resp.req.username
    /\ \E u \in Rows(users) : u.email = resp.req.email

\* the user rows a login request has the username and the password of
LoginMatches(r) ==
    {u \in Rows(users) :
        /\ u.username = r.req.username
        /\ \E salt \in Salts :
              u.hashed_password = get_password_hash(r.req.password, salt)}

\* a well-formed token signed with the secret for user id
SignedFor(token, id) ==
    /\ token.wf
    /\ token.sig = Sign(token.payload, Secret)
    /\ token.payload.sub = id

\* C5: a login is answered 401 without a token when the username is
\* unknown or the password does not match the stored hash; it is answered
\* with a token only when a user has that username and password, and the
\* token is issued for the id of that user.
C5_LoginCredentials ==
    resp.op = "login" =>
        IF LoginMatches(resp) = {}
        THEN resp.status = 401 /\ "token" \notin DOMAIN resp
        ELSE /\ resp.status = 200
             /\ \E u \in LoginMatches(resp) :
                   /\ SignedFor(resp.token, u.id)
                   /\ resp.user = PublicUser(u)

\* a login with the username of a user and another password has been
\* refused
C5_Witness ==
    /\ resp.op = "login"
    /\ resp.status = 401
    /\ "token" \notin DOMAIN resp
    /\ \E u \in Rows(users) : u.username = resp.req.username

Bearer(token) == [kind |-> "bearer", token |-> token]

\* the bearer credentials that must not authenticate: malformed, not signed
\* with the secret for their payload, expired, without an id, or for an id
\* that no user has
BadCredentials ==
    {c \in Credentials :
        /\ c.kind = "bearer"
        /\ \/ ~c.token.wf
           \/ c.token.sig # Sign(c.token.payload, Secret)
           \/ c.token.payload.exp <= now
           \/ c.token.payload.sub = NoneId
           \/ \A u \in Rows(users) : u.id # c.token.payload.sub}

\* C6: a token issued by signup or login for a user authenticates a request
\* as exactly that user (until it expires); tampered, malformed and expired
\* tokens, tokens without an id and tokens of unknown users all get the
\* same 401, and a refused request does not run the body of its endpoint.
C6_TokenAuthenticates ==
    /\ [](/\ (resp.op \in {"signup", "login"} /\ resp.status = 200
              /\ now < resp.token.payload.exp)
             => \E u \in Rows(users) :
                   /\ PublicUser(u) = resp.user
                   /\ Authenticate(Bearer(resp.token), users, now)
                          = {[status |-> 200, user |-> <<u>>]}
          /\ \A c \in BadCredentials :
                Authenticate(c, users, now) = {[status |-> 401, user |-> <<>>]}
          /\ \A u \in Callers :
                \E c \in Credentials \ BadCredentials :
                    c.kind = "bearer" /\ c.token.payload.sub = u.id)
    /\ [][("auth" \in DOMAIN resp' /\ resp' # resp)
             => UNCHANGED <<users, reports, disk, user_memories,
                            adv_messages, generations>>]_vars

\* a user has signed up, the token of the answer has expired, and a
\* protected endpoint has answered 401 to bearer credentials
C6_Witness ==
    /\ resp.op = "generate_report"
    /\ resp.status = 401
    /\ resp.auth = "bearer"
    /\ users # <<>>
    /\ encode_token(1, 0) \in {c.token : c \in BadCredentials}
    /\ reports = <<>>

\* the ids, topics and file names a listing carries
Listed(body) ==
    {<<body[i].id, body[i].topic, body[i].filename>> : i \in DOMAIN body}

\* C7: a listing answered to user u carries exactly the report rows owned by
\* u, one entry a row, whether it was read by the typed query or by the raw
\* query used when the column is missing.
C7_ListingOnlyOwnRows ==
    (resp.op = "reports" /\ resp.status = 200) =>
        /\ resp.via \in {"typed", "raw"}
        /\ Listed(resp.body) =
               {<<r.id, r.topic, r.filename>> :
                    r \in {x \in Rows(reports) : x.user_id = resp.user}}
        /\ Len(resp.body) =
               Cardinality({i \in DOMAIN reports :
                               reports[i].user_id = resp.user})

\* the raw query has listed the report of one user while another user has a
\* report too
C7_Witness ==
    /\ resp.op = "reports"
    /\ resp.status = 200
    /\ resp.via = "raw"
    /\ Len(resp.body) = 1
    /\ \E r \in Rows(reports) : r.user_id # resp.user

\* the rows that name a file
Naming(rows, filename) == {i \in DOMAIN rows : rows[i].filename = filename}

\* the earlier rows a successful generation collides with: same user, same
\* endpoint, and a document of the same length as the new content
Colliding ==
    {i \in DOMAIN reports :
        /\ reports[i].user_id = resp'.user
        /\ Head(reports[i].filename) = Head(resp'.filename)
        /\ Exists(disk, reports[i].file_path)
        /\ TextLen(disk[reports[i].file_path].content) = TextLen(resp'.content)}

\* C8: a generation by the same user through the same endpoint with content
\* of the same length as an earlier one gets the earlier file name; the
\* file then holds the later document, every row remains and one more row
\* names the file, and a download by the earlier row's file name returns
\* the later document.
C8_SameLengthOverwrites ==
    [][(Generated /\ resp'.status = 200) =>
         /\ SubSeq(reports', 1, Len(reports)) = reports
         /\ \A i \in Colliding :
               LET row == reports[i]
                   doc == [topic |-> resp'.topic, content |-> resp'.content,
                           author |-> users[resp'.user].username]
               IN  /\ row.filename = resp'.filename
                   /\ disk'[row.file_path] = doc
                   /\ Cardinality(Naming(reports', row.filename))
                          = Cardinality(Naming(reports, row.filename)) + 1
                   /\ \A u \in Callers, db \in DbRuns(has_column),
                         op \in {"download", "download_json"} :
                           LET d == download_response(op, disk', reports',
                                        has_column, row.filename, u.id,
                                        db[1], db[2])
                           IN  /\ d.status = 200
                               /\ d.body = DownloadBody(op, row.filename, doc)]_vars

\* two rows of one user name one file, the rows have different topics, and
\* the file holds the document of the later one
C8_Witness ==
    /\ Len(reports) = 2
    /\ reports[1].user_id = reports[2].user_id
    /\ reports[1].filename = reports[2].filename
    /\ reports[1].topic # reports[2].topic
    /\ resp.status = 200
    /\ IsGeneration(resp)
    /\ disk[reports[1].file_path].topic = reports[2].topic

\* the answers of /generate-report that ran the generator
PlainGeneration(r) == r.op = "generate_report" /\ "content" \in DOMAIN r

\* C9: when the service has no llm or the call to the provider raises, the
\* text of plain generation is the fallback template for the topic, so it
\* is a function of the topic alone.
C9_FallbackTemplate ==
    (PlainGeneration(resp) /\ resp.sent.chain.kind \in {"not_called", "raises"})
        => /\ resp.content = Interpolate(DemoLiteral, resp.topic, 1)
           /\ TextLen(resp.content) = 4351 + 10 * TextLen(resp.topic)

\* the provider call has raised and the template has been returned
C9_Witness ==
    /\ PlainGeneration(resp)
    /\ ai_llm
    /\ resp.sent.chain.kind = "raises"
    /\ resp.content = AIService_generate_demo_content(resp.topic)

Trimmed(text, completion) ==
    /\ text = <<>> \/ (Head(text) \notin WhiteSpace
                       /\ text[Len(text)] \notin WhiteSpace)
    /\ \E i \in 0..Len(completion) :
          /\ i + Len(text) <= Len(completion)
          /\ SubSeq(completion, i + 1, i + Len(text)) = text
          /\ \A k \in (1..i) \cup ((i + Len(text) + 1)..Len(completion)) :
                completion[k] \in WhiteSpace

IsCall(r) == "raised" \in DOMAIN r

\* C11: every generation entry point of the two services returns a text,
\* whatever the topic and whatever the provider does (unconfigured, call
\* raising, result that is not text); none lets the failure reach its
\* caller.
C11_EntryPointsTotal ==
    IsCall(resp) =>
        /\ ~resp.raised
        /\ \A i \in DOMAIN resp.text : resp.text[i] \in STRING

\* a direct call of AdvancedAIService.generate_enhanced_report is answered
\* in this step
ContextCall ==
    /\ generations' = generations + 1
    /\ resp'.op = "AdvancedAIService.generate_enhanced_report"

\* the log of user_id in memories, empty when there is none
LogOf(memories, user_id) ==
    IF user_id \in DOMAIN memories THEN memories[user_id] ELSE <<>>

\* C12: AdvancedAIService.generate_enhanced_report appends the line
\* "Interested in: {topic}" to the caller's log after a successful
\* generation and only then: a call that returns the fallback content
\* (no llm, the chain raising, the handling of its result raising) leaves
\* the memory as it was.
C12_MemoryOnlyAfterSuccess ==
    [][ContextCall =>
         IF resp'.chain.kind = "text"
         THEN LogOf(user_memories', resp'.user) =
                  LogOf(user_memories, resp'.user)
                      \o <<"\nInterested in: ">> \o resp'.topic
         ELSE /\ resp'.text = Interpolate(AdvDemoLiteral, resp'.topic, 1)
              /\ user_memories' = user_memories]_vars

IsPrefix(s, t) == Len(s) <= Len(t) /\ SubSeq(t, 1, Len(s)) = s

\* C13: the memory log of a user only grows: in every step each log is a
\* prefix of what it becomes and no key goes away, and a log is created or
\* extended only by a context-augmented generation of its own user.
C13_MemoryOnlyGrows ==
    [][/\ \A u \in DOMAIN user_memories :
             /\ u \in DOMAIN user_memories'
             /\ IsPrefix(user_memories[u], user_memories'[u])
       /\ \A u \in DOMAIN user_memories' :
             LogOf(user_memories', u) # LogOf(user_memories, u)
                 => /\ resp'.op = "generate_enhanced_report"
                    /\ Authenticated(resp')
                    /\ resp'.user = u
                    /\ ~resp'.sent.include_memory]_vars

\* both users have a log: the generation of the second user has created
\* its log and left the log of the first as it was
C13_Witness ==
    /\ DOMAIN user_memories = {1, 2}
    /\ resp.op = "generate_enhanced_report"
    /\ resp.user = 2
    /\ user_memories[1] # <<>>
    /\ user_memories[2] = <<"\nInterested in: ">> \o resp.topic

AdvMemoryOp == "AdvancedAIService.generate_report_with_memory"
AIMemoryOp == "AIService.generate_report_with_memory"

\* a direct call of generate_report_with_memory is answered in this step
MemoryCall ==
    /\ generations' = generations + 1
    /\ resp'.op \in {AdvMemoryOp, AIMemoryOp}

\* the entries from the sixth from the end on are cut off
Window(log) ==
    [i \in 1..(IF Len(log) < 5 THEN Len(log) ELSE 5) |->
        log[Len(log) - (IF Len(log) < 5 THEN Len(log) ELSE 5) + i]]

\* C14: history-based generation hands its chain the last five entries of
\* the one log all users share (all entries when there are fewer); a
\* generation appends its two entries to that log; so the entries of one
\* user's generation are in the history of the next generation, whoever
\* asks for it.
C14_SharedHistoryWindow ==
    [][MemoryCall =>
         LET before == IF resp'.op = AdvMemoryOp
                       THEN adv_messages ELSE ai_messages
             after == IF resp'.op = AdvMemoryOp
                      THEN adv_messages' ELSE ai_messages'
         IN  /\ resp'.chain.kind # "not_called" =>
                   resp'.history =
                       IF before = <<>> /\ resp'.op = AdvMemoryOp
                       THEN <<"No conversation history available">>
                       ELSE JoinMessages(Window(before))
             /\ resp'.chain.kind = "text" =>
                   /\ Len(after) = Len(before) + 2
                   /\ IsPrefix(before, after)
                   /\ after[Len(after) - 1].type = "human"
                   /\ Contains(after[Len(after) - 1].content, resp'.topic)
                   /\ after[Len(after)].type = "ai"
             /\ (/\ resp.op = resp'.op
                 /\ resp.chain.kind = "text"
                 /\ resp'.chain.kind # "not_called") =>
                   /\ Contains(resp'.history,
                               before[Len(before) - 1].content)
                   /\ Contains(before[Len(before) - 1].content, resp.topic)]_vars

\* the shared log holds more than five entries, and a generation for one
\* user has been given the entries of a generation for the other topic
\* while the oldest entries were cut off
C14_Witness ==
    /\ resp.op = AdvMemoryOp
    /\ resp.chain.kind = "text"
    /\ Len(adv_messages) = 8
    /\ resp.user = 2
    /\ Contains(resp.history, <<"Generated report on: ", "a">>)
    /\ adv_messages[1].content = <<"Generated report on: ", "b">>
    /\ ~Contains(resp.history, <<"Generated report on: ", "b">>)

\* C15: every access to table reports tries the typed statement first and,
\* on an error that mentions generation_method, the raw statement, which
\* then gives what the typed one would have given: the row is inserted,
\* the owner's row is found, the rows are listed with a null
\* generation_method.  (A raw statement that fails itself is left aside.)
C15_RawRetrySameResult ==
    /\ (IsGeneration(resp) /\ Authenticated(resp) /\ resp.status = 200
        /\ resp.via = "raw")
          => /\ reports # <<>>
             /\ reports[Len(reports)].user_id = resp.user
             /\ reports[Len(reports)].filename = resp.filename
    /\ (IsDownload(resp) /\ Authenticated(resp) /\ resp.status = 200)
          => IF owned_rows(reports, resp.req, resp.user) # {}
             THEN resp.check \in {"owned", "db_error"}
             ELSE resp.check \in {"access_denied", "db_error"}
    /\ (resp.op = "reports" /\ resp.status = 200 /\ resp.via = "raw")
          => /\ Len(resp.body) = Len(user_rows(reports, resp.user))
             /\ \A i \in DOMAIN resp.body :
                   resp.body[i].generation_method = "NULL"

\* the body of a generate endpoint has run in this step
GenerationBody ==
    /\ generations' = generations + 1
    /\ IsGeneration(resp')

\* C16: in both generate endpoints a failure of the render step or of the
\* persist step is answered with one 500 that carries the message of the
\* error, and with no content and file name of a success; an answer is a
\* success exactly when the row was inserted, and a failure of the provider
\* is never what a 500 reports.
C16_FailureIsOne500 ==
    [][GenerationBody =>
         /\ resp'.status \in {200, 500}
         /\ resp'.status = 200 <=> Len(reports') = Len(reports) + 1
         /\ resp'.status = 200 =>
               /\ Exists(disk', <<"reports/">> \o resp'.filename)
               /\ "detail" \notin DOMAIN resp'
         /\ resp'.status = 500 =>
               /\ reports' = reports
               /\ "filename" \notin DOMAIN resp'
               /\ "generation_method" \notin DOMAIN resp'
               /\ Len(resp'.detail) = 2
               /\ resp'.detail[1] \in {"Failed to generate report: ",
                                       "Failed to generate enhanced report: "}
               /\ resp'.detail[1] = "Failed to generate report: "
                     <=> resp'.op = "generate_report"
               /\ resp'.detail[2] \in {"render error", "database error",
                                       "raw statement error"}
               /\ resp'.via = "none" <=> resp'.detail[2] = "render error"
               /\ resp'.via = "none" => disk' = disk]_vars

\* the provider call has raised, the fallback text has been rendered, and
\* the insert has failed: the answer is a 500 for the database error
C16_Witness ==
    /\ IsGeneration(resp)
    /\ Authenticated(resp)
    /\ resp.status = 500
    /\ resp.sent.chain.kind = "raises"
    /\ resp.via = "typed"
    /\ resp.detail[2] = "database error"
    /\ disk # <<>>
    /\ reports = <<>>

\* C17: report rows are created one for each successful generation and
\* are never changed or deleted: in every step the rows there are stay as
\* they are, in every field, and a row is added exactly by a generation
\* that is answered 200.
C17_RowsOnlyAdded ==
    [][/\ Len(reports) <= Len(reports')
       /\ \A i \in DOMAIN reports :
             /\ reports'[i].id = reports[i].id
             /\ reports'[i].user_id = reports[i].user_id
             /\ reports'[i].topic = reports[i].topic
             /\ reports'[i].filename = reports[i].filename
             /\ reports'[i].file_path = reports[i].file_path
             /\ reports'[i].generation_method = reports[i].generation_method
       /\ Len(reports') \in {Len(reports), Len(reports) + 1}
       /\ Len(reports') = Len(reports) + 1
             <=> (GenerationBody /\ resp'.status = 200)]_vars

\* two generations have left two rows that name one file, with different
\* topics, and a listing has been answered since
C17_Witness ==
    /\ Len(reports) = 2
    /\ reports[1].filename = reports[2].filename
    /\ reports[1].topic # reports[2].topic
    /\ reports[1].id # reports[2].id
    /\ resp.op = "reports"
    /\ resp.status = 200

\* every row names a file that is there, at reports/{filename}
RowsHaveFiles ==
    \A r \in Rows(reports) :
        /\ r.file_path = <<"reports/">> \o r.filename
        /\ r.file_path \in DOMAIN disk

\* C18: every report row names a file that exists at reports/{filename}:
\* the PDF is written before the row is inserted, a request whose render
\* fails inserts nothing, and no request removes a file.  A file may be
\* there without a row.
C18_RowsNameExistingFiles ==
    /\ []RowsHaveFiles
    /\ [][/\ DOMAIN disk \subseteq DOMAIN disk'
          /\ (GenerationBody /\ resp'.via = "none")
                => (reports' = reports /\ disk' = disk)
          /\ Len(reports') > Len(reports)
                => reports'[Len(reports')].file_path \in DOMAIN disk']_vars

\* a PDF has been rendered and its insert has failed: the file is there and
\* no row names it
C18_Witness ==
    /\ IsGeneration(resp)
    /\ Authenticated(resp)
    /\ resp.status = 500
    /\ resp.via \in {"typed", "raw"}
    /\ reports = <<>>
    /\ \E f \in DOMAIN disk : disk[f].content = resp.content

\* the prefix of the file names of an endpoint
FamilyOf(op) ==
    IF op = "generate_report" THEN "report_" ELSE "enhanced_report_"

\* C19: a generation never overwrites a file made for another user or by
\* the other endpoint: the file name a request writes is the file name of
\* an earlier generation only if that one was by the same user, through
\* the same endpoint family, with content of the same length.
C19_OverwriteOnlyOwnSameLength ==
    [][GenerationBody =>
         /\ \A i \in DOMAIN reports :
               (resp'.status = 200 /\ reports[i].filename = resp'.filename)
                  => /\ reports[i].user_id = resp'.user
                     /\ Head(reports[i].filename) = FamilyOf(resp'.op)
                     /\ TextLen(disk[reports[i].file_path].content)
                            = TextLen(resp'.content)
         /\ \A f \in DOMAIN disk :
               disk'[f] # disk[f]
                  => /\ disk[f].author = users[resp'.user].username
                     /\ f[2] = FamilyOf(resp'.op)
                     /\ TextLen(disk[f].content) = TextLen(resp'.content)]_vars

\* two users have generated content of the same length through the same
\* endpoint, and each has a file of their own
C19_Witness ==
    /\ Len(reports) = 2
    /\ reports[1].user_id # reports[2].user_id
    /\ Head(reports[1].filename) = Head(reports[2].filename)
    /\ reports[1].filename # reports[2].filename
    /\ TextLen(disk[reports[1].file_path].content)
           = TextLen(disk[reports[2].file_path].content)
    /\ disk[reports[1].file_path].author = users[reports[1].user_id].username
    /\ disk[reports[2].file_path].author = users[reports[2].user_id].username

\* a suspended generation resumes and returns in this step
Finishes == inflight' # inflight /\ inflight' \subseteq inflight

\* C20: when context-augmented generations interleave at the provider call
\* no append to the memory is lost: a generation that completes
\* successfully puts its own line, whole, at the end of its user's log as
\* the log is then, and changes nothing else; a generation that suspends
\* changes no log.  The prompt of a generation may predate the lines of
\* those that completed while it was suspended.
C20_NoLostAppend ==
    [][/\ Finishes =>
             /\ resp'.chain.kind = "text" =>
                   LogOf(user_memories', resp'.user) =
                       LogOf(user_memories, resp'.user)
                           \o <<"\nInterested in: ">> \o resp'.topic
             /\ \A u \in DOMAIN user_memories :
                   /\ u \in DOMAIN user_memories'
                   /\ IsPrefix(user_memories[u], user_memories'[u])
                   /\ u # resp'.user => user_memories'[u] = user_memories[u]
       /\ ~Finishes => user_memories' = user_memories]_vars

\* three generations for one user were in flight together and all have
\* completed: the log has their three lines, in the order of completion,
\* and the prompt of the last to complete had none of them
C20_Witness ==
    /\ inflight = {}
    /\ generations = 3
    /\ "chain" \in DOMAIN resp
    /\ resp.chain.kind = "text"
    /\ resp.history = <<"No user memory available">>
    /\ resp.topic = <<"b">>
    /\ LogOf(user_memories, resp.user) =
           <<"\nInterested in: ", "a", "\nInterested in: ", "a",
             "\nInterested in: ", "b">>

\* a second run of the script without faults leaves what the first left
MigrationIdempotent ==
    LET once == migrate_database(db_file, has_column, reports, "none")
        twice == migrate_database(once.db_file, once.column, once.rows, "none")
    IN  /\ twice.db_file = once.db_file
        /\ twice.column = once.column
        /\ twice.rows = once.rows
        /\ once.rows = reports
        /\ twice.outcome # "migrated"

====
